---------------------------- MODULE Spec2Model ----------------------------
(***************************************************************************)
(* Model of tgvoip_pyrogram/file_stream_call.py: VoIPFileStreamCallMixin,  *)
(* the file streaming engine of a voice call (playback queue, hold queue,  *)
(* output file, seek, file-changed and progress events).                   *)
(*                                                                         *)
(* Every method of the class is a pure operator from the object's state    *)
(* (a record with one field per attribute, plus the state of the file      *)
(* handles it touches) to the state it leaves behind, exceptions included: *)
(* a Python exception ends the method where it is raised and keeps the     *)
(* assignments made before it.                                             *)
(***************************************************************************)
EXTENDS Integers, Sequences, FiniteSets, TLC

(***************************************************************************)
(* Bounds of the model.                                                    *)
(***************************************************************************)
NumFiles == 3      \* handles opened for reading ('rb')
NumSinks == 2      \* handles opened for writing ('wb')
MaxQueue == 2      \* longest playback queue, longest play_on_hold list
MaxLen == 2        \* longest frame the engine asks for
MaxSeek == 3       \* largest byte offset passed to seek
MaxCloses == 2     \* close() calls counted per handle (saturating)
MaxWrites == 1     \* frames counted per output file (saturating)
MaxLog == 4        \* calls recorded by the traced specification
MaxCalls == 3      \* calls started in the threaded specification
MaxProgressLog == 6   \* calls recorded by the progress specification
ProgressSize == 2500  \* size of the files of the progress specification
MaxDrainLog == 6   \* calls recorded by the drain specification
MaxIndex == 2      \* largest file_index passed to seek
MinIndex == 1      \* seek is given file_index values down to -MinIndex

(***************************************************************************)
(* Python values.                                                          *)
(***************************************************************************)
None == 0                       \* None, where a handle or a name is expected
NoFrame == <<>>                 \* no frame was returned
NoError == ""

Files == 1..NumFiles
Sinks == (NumFiles + 1)..(NumFiles + NumSinks)
Handles == Files \cup Sinks

\* f.mode of a handle: the readable ones are 'rb', the writable ones 'wb'.
Mode(h) == IF h \in Files THEN "rb" ELSE "wb"
\* f.name of a handle: every handle is a file of its own.
FileName(h) == h

\* 'b' in f.mode and any(m in f.mode for m in 'rxa+')
ReadModeOK(h) == Mode(h) \in {"rb", "xb", "ab", "rb+", "wb+"}
\* 'b' in f.mode and any(m in f.mode for m in 'wxa+')
WriteModeOK(h) == Mode(h) \in {"wb", "xb", "ab", "rb+", "wb+"}

\* Sizes on disk, by handle: the files of the general specification and of
\* the end-to-end scenarios.
MainSizes == <<2, 1, 0>>
ScenarioSizes == <<10, 5, 3>>
UnitSizes == <<1, 1, 0>>
DiskOf(sizes) == [f \in Files |-> IF f <= Len(sizes) THEN sizes[f] ELSE 1]

Lengths == 0..MaxLen
ScenarioLengths == {1, 3, 4, 5}
ProgressLengths == {0, 1, 25}
SeekOffsets == 0..MaxSeek
SeekIndices == (0 - MinIndex)..MaxIndex

Min(a, b) == IF a < b THEN a ELSE b
Max(a, b) == IF a > b THEN a ELSE b

VARIABLES
    input_files,               \* self.input_files: deque of handles
    hold_files,                \* self.hold_files: deque of handles
    current_file_index,        \* self.current_file_index
    last_file_name,            \* self.last_file_name
    current_file,              \* self.current_file
    current_bytes_offset,      \* self.current_bytes_offset
    force_seek,                \* self.force_seek
    output_file,               \* self.output_file
    last_progress_percentage,  \* self.last_progress_percentage, in tenths
    pos,                       \* f.tell() of every handle
    closes,                    \* number of f.close() calls on every handle
    writes,                    \* frames written to every handle
    disk,                      \* os.path.getsize(f.name) of every handle
    accepted,                  \* handles taken into a queue or as output file
    destroyed,                 \* __del__ has run
    ret,                       \* the frame the last _read_frame returned
    fault,                     \* the exception the last call raised
    diag,                      \* the diagnostic the last call printed
    evts,                      \* the events the last call emitted
    log,                       \* the calls so far, in the traced specifications
    reader,                    \* the _read_frame call in flight: its locals
    seeker,                    \* the seek call in flight: its locals
    sought                     \* the seek that returned and that no read
                               \* has started after: <<bytes_offset, index>>

objvars == <<input_files, hold_files, current_file_index, last_file_name,
             current_file, current_bytes_offset, force_seek, output_file,
             last_progress_percentage, pos, closes, writes, disk,
             accepted, destroyed, ret, fault, diag, evts>>

\* The object and its handles as one record.
Self ==
    [input_files |-> input_files, hold_files |-> hold_files,
     current_file_index |-> current_file_index,
     last_file_name |-> last_file_name, current_file |-> current_file,
     current_bytes_offset |-> current_bytes_offset, force_seek |-> force_seek,
     output_file |-> output_file,
     last_progress_percentage |-> last_progress_percentage,
     pos |-> pos, closes |-> closes, writes |-> writes,
     disk |-> disk, accepted |-> accepted, destroyed |-> destroyed,
     ret |-> ret, fault |-> fault, diag |-> diag, evts |-> evts]

\* The variables take the values of record s.
Becomes(s) ==
    /\ input_files' = s.input_files
    /\ hold_files' = s.hold_files
    /\ current_file_index' = s.current_file_index
    /\ last_file_name' = s.last_file_name
    /\ current_file' = s.current_file
    /\ current_bytes_offset' = s.current_bytes_offset
    /\ force_seek' = s.force_seek
    /\ output_file' = s.output_file
    /\ last_progress_percentage' = s.last_progress_percentage
    /\ pos' = s.pos
    /\ closes' = s.closes
    /\ writes' = s.writes
    /\ disk' = s.disk
    /\ accepted' = s.accepted
    /\ destroyed' = s.destroyed
    /\ ret' = s.ret
    /\ fault' = s.fault
    /\ diag' = s.diag
    /\ evts' = s.evts

\* A call that is not recorded leaves the object in state s.
threads == <<reader, seeker, sought>>
Does(s) == Becomes(s) /\ log' = log /\ UNCHANGED threads

(***************************************************************************)
(* Python's sequences and file objects.                                    *)
(***************************************************************************)
\* q[i] is defined for -len(q) <= i < len(q); a negative i counts from the end.
InRange(q, i) == (0 - Len(q)) <= i /\ i < Len(q)
PyIndex(q, i) == IF i >= 0 THEN q[i + 1] ELSE q[Len(q) + i + 1]

\* A call starts: nothing returned, raised, printed or emitted yet.
Begin(s) ==
    [s EXCEPT !.ret = NoFrame, !.fault = NoError, !.diag = NoError,
              !.evts = <<>>]
\* print(msg)
Report(s, msg) == [s EXCEPT !.diag = msg]
\* raise exc
Raise(s, exc) == [s EXCEPT !.fault = exc, !.ret = NoFrame]

IsClosed(s, f) == s.closes[f] > 0
\* f.close(): a closed handle has no position any more.
FileClose(s, f) == [s EXCEPT !.closes[f] = Min(@ + 1, MaxCloses), !.pos[f] = 0]
\* file.size: os.path.getsize(file.name), kept on the handle at its first read.
FileSize(s, f) == s.disk[f]
\* f.seek(offset): a position past the end of the file is kept as it is.
FileSeek(s, f, offset) == [s EXCEPT !.pos[f] = offset]
\* len(f.read(length)): what is left of the file, at most length bytes.
ReadCount(s, f, length) == Min(length, Max(s.disk[f] - s.pos[f], 0))
\* The frame f.read(length) returns: ReadCount bytes of f from f.tell() on.
Frame(s, f, length) == <<f, s.pos[f], ReadCount(s, f, length)>>
FileRead(s, f, length) == [s EXCEPT !.pos[f] = @ + ReadCount(s, f, length)]
FrameLen(frame) == frame[3]

(***************************************************************************)
(* Events.  A percentage is the exact quotient <<numerator, denominator>>. *)
(***************************************************************************)
\* Percentage as the share of the file still to be read.
Percentage_remaining(bytes_offset, total) ==
    <<(total - bytes_offset) * 100, total>>

Percentage(bytes_offset, total) == <<bytes_offset * 100, total>>
\* round(percentage, 1), in tenths: to the nearest tenth, a tie to the even
\* one.  (No quotient of the model is a tie that a float cannot hold.)
Round1(p) ==
    LET t == (10 * p[1]) \div p[2]
        r == (10 * p[1]) % p[2]
    IN  IF 2 * r < p[2] THEN t
        ELSE IF 2 * r > p[2] THEN t + 1
        ELSE IF t % 2 = 0 THEN t ELSE t + 1

Event(kind, file, index, offset, total, pct) ==
    [kind |-> kind, file |-> file, index |-> index, offset |-> offset,
     total |-> total, pct |-> pct]

\* file_changed(): (self, self.current_file, self.current_file_index)
file_changed(s) ==
    [s EXCEPT !.evts = Append(@, Event("file_changed", s.current_file,
                                      s.current_file_index, 0, 0, <<0, 1>>))]

\* file_progress(bytes_offset, total_bytes, percentage)
file_progress(s, bytes_offset, total_bytes, percentage) ==
    IF s.last_progress_percentage = Round1(percentage)
    THEN s
    ELSE [s EXCEPT !.last_progress_percentage = Round1(percentage),
                   !.evts = Append(@, Event("file_progress", None, 0,
                                            bytes_offset, total_bytes,
                                            percentage))]

(***************************************************************************)
(* Queue management.                                                       *)
(***************************************************************************)
clear_file_info(s) ==
    [s EXCEPT !.last_file_name = None, !.current_file = None,
              !.current_file_index = 0, !.current_bytes_offset = 0]

RECURSIVE CloseAll(_, _)
\* for f in q: f.close()
CloseAll(s, q) ==
    IF q = <<>> THEN s ELSE CloseAll(FileClose(s, Head(q)), Tail(q))

clear_play_queue(s) ==
    clear_file_info([CloseAll(s, s.input_files) EXCEPT !.input_files = <<>>])

clear_hold_queue(s) ==
    clear_file_info([CloseAll(s, s.hold_files) EXCEPT !.hold_files = <<>>])

unset_output_file(s) ==
    LET t == IF s.output_file # None THEN FileClose(s, s.output_file) ELSE s
    IN  [t EXCEPT !.output_file = None]

\* play that puts the handle at the head of the queue (appendleft).
play_front(s0, f) ==
    LET s == Begin(s0)
    IN  IF ~ReadModeOK(f)
        THEN Report(s, "file must be opened in binary reading/updating mode")
        ELSE [s EXCEPT !.input_files = <<f>> \o @,
                       !.accepted = @ \cup {f}]

\* play(f): f is an open handle (a path is opened 'rb', a readable handle).
play(s0, f) ==
    LET s == Begin(s0)
    IN  IF ~ReadModeOK(f)
        THEN Report(s, "file must be opened in binary reading/updating mode")
        ELSE [s EXCEPT !.input_files = Append(@, f),
                       !.accepted = @ \cup {f}]

RECURSIVE AppendHold(_, _)
\* for f in files: ... self.hold_files.append(f)
AppendHold(s, files) ==
    IF files = <<>> THEN s
    ELSE IF ~ReadModeOK(Head(files))
    THEN AppendHold(
             Report(s, "file must be opened in binary reading/updating mode"),
             Tail(files))
    ELSE AppendHold([s EXCEPT !.hold_files = Append(@, Head(files)),
                              !.accepted = @ \cup {Head(files)}],
                    Tail(files))

\* play_on_hold(files): islist is isinstance(files, (list, tuple, set)).
play_on_hold(s0, islist, files) ==
    LET s == Begin(s0)
    IN  IF ~islist
        THEN Report(s, "list, tuple or set expected")
        ELSE AppendHold(clear_hold_queue(s), files)

set_output_file(s0, f) ==
    LET s == Begin(s0)
    IN  IF ~WriteModeOK(f)
        THEN Report(s, "file must be opened in binary writing/updating mode")
        ELSE [s EXCEPT !.output_file = f, !.accepted = @ \cup {f}]

(***************************************************************************)
(* The frame pump.                                                         *)
(***************************************************************************)
\* next_file with the cursor of the hold queue always set back to 0.
next_file_first(s) ==
    LET file_index == s.current_file_index
    IN  IF Len(s.input_files) > 0
        THEN IF ~InRange(s.input_files, file_index)
             THEN Raise(s, "IndexError")
             ELSE LET file == PyIndex(s.input_files, file_index)
                      t == [FileClose(s, file)
                                EXCEPT !.input_files = Tail(@)]
                  IN  IF ~InRange(t.input_files, t.current_file_index)
                      THEN Raise(t, "IndexError")
                      ELSE [t EXCEPT !.current_file =
                                PyIndex(t.input_files, t.current_file_index)]
        ELSE IF Len(s.hold_files) > 0
        THEN IF ~InRange(s.hold_files, file_index)
             THEN Raise(s, "IndexError")
             ELSE LET file == PyIndex(s.hold_files, file_index)
                  IN  IF IsClosed(s, file)
                      THEN Raise(s, "ValueError")
                      ELSE LET t == [FileSeek(s, file, 0) EXCEPT
                                        !.current_bytes_offset = 0,
                                        !.current_file_index = 0]
                           IN  [t EXCEPT !.current_file =
                                    PyIndex(t.hold_files, t.current_file_index)]
        ELSE s

next_file(s) ==
    LET file_index == s.current_file_index
    IN  IF Len(s.input_files) > 0
        THEN IF ~InRange(s.input_files, file_index)
             THEN Raise(s, "IndexError")
             ELSE LET file == PyIndex(s.input_files, file_index)
                      t == [FileClose(s, file)
                                EXCEPT !.input_files = Tail(@)]
                  IN  IF ~InRange(t.input_files, t.current_file_index)
                      THEN Raise(t, "IndexError")
                      ELSE [t EXCEPT !.current_file =
                                PyIndex(t.input_files, t.current_file_index)]
        ELSE IF Len(s.hold_files) > 0
        THEN IF ~InRange(s.hold_files, file_index)
             THEN Raise(s, "IndexError")
             ELSE LET file == PyIndex(s.hold_files, file_index)
                  IN  IF IsClosed(s, file)
                      THEN Raise(s, "ValueError")
                      ELSE LET t == [FileSeek(s, file, 0) EXCEPT
                                        !.current_bytes_offset = 0,
                                        !.current_file_index =
                                            IF file_index + 1 < Len(s.hold_files)
                                            THEN file_index + 1 ELSE 0]
                           IN  [t EXCEPT !.current_file =
                                    PyIndex(t.hold_files, t.current_file_index)]
        ELSE s

\* The queue _read_frame and seek work on.
ActiveFiles(s) ==
    IF Len(s.hold_files) > 0 THEN s.hold_files ELSE s.input_files

\* Lines 111-127 of _read_frame, once the file is resolved.
ReadFrom(s, file, length) ==
    IF IsClosed(s, file)
    THEN Raise(s, "ValueError")
    ELSE LET s2 == IF s.force_seek
                   THEN [FileSeek(s, file, s.current_bytes_offset)
                             EXCEPT !.force_seek = FALSE]
                   ELSE s
             frame == Frame(s2, file, length)
             s3 == FileRead(s2, file, length)
             s4 == [s3 EXCEPT !.current_bytes_offset = s3.pos[file]]
             s6 == IF s4.last_file_name # FileName(file)
                   THEN [file_changed(s4) EXCEPT
                            !.last_file_name = FileName(file)]
                   ELSE s4
         IN  IF FileSize(s6, file) = 0
             THEN Raise(s6, "ZeroDivisionError")
             ELSE LET s7 == file_progress(s6, s6.current_bytes_offset,
                                FileSize(s6, file),
                                Percentage(s6.current_bytes_offset,
                                           FileSize(s6, file)))
                      s8 == IF FrameLen(frame) # length
                            THEN next_file(s7) ELSE s7
                  IN  IF s8.fault # NoError THEN s8
                      ELSE [s8 EXCEPT !.ret = frame]

_read_frame(s0, length) ==
    LET s == Begin(s0)
        file_index == s.current_file_index
        files == ActiveFiles(s)
    IN  IF file_index >= Len(files)
        THEN Report(s, "file index unnexistent")
        ELSE IF ~InRange(files, file_index)
        THEN Raise(s, "IndexError")
        ELSE ReadFrom([s EXCEPT !.current_file = PyIndex(files, file_index)],
                      PyIndex(files, file_index), length)

_write_frame(s0) ==
    LET s == Begin(s0)
    IN  IF s.output_file = None THEN s
        ELSE IF IsClosed(s, s.output_file) THEN Raise(s, "ValueError")
        ELSE [s EXCEPT !.writes[s.output_file] = Min(@ + 1, MaxWrites)]

\* previous_file without the test of the playback queue.
previous_file_any(s0) ==
    LET s == Begin(s0)
        file_index == s.current_file_index
    IN  IF ~InRange(s.hold_files, file_index)
        THEN Raise(s, "IndexError")
        ELSE LET file == PyIndex(s.hold_files, file_index)
             IN  IF IsClosed(s, file)
                 THEN Raise(s, "ValueError")
                 ELSE LET t == [FileSeek(s, file, 0) EXCEPT
                                   !.current_bytes_offset = 0,
                                   !.current_file_index =
                                       IF file_index - 1 >= 0
                                       THEN file_index - 1
                                       ELSE Len(s.hold_files) - 1]
                      IN  [t EXCEPT !.current_file =
                               PyIndex(t.hold_files, t.current_file_index)]

previous_file(s0) ==
    LET s == Begin(s0)
        file_index == s.current_file_index
    IN  IF Len(s.input_files) > 0
        THEN Report(s, "previous_file can only be used with play_on_hold")
        ELSE IF ~InRange(s.hold_files, file_index)
        THEN Raise(s, "IndexError")
        ELSE LET file == PyIndex(s.hold_files, file_index)
             IN  IF IsClosed(s, file)
                 THEN Raise(s, "ValueError")
                 ELSE LET t == [FileSeek(s, file, 0) EXCEPT
                                   !.current_bytes_offset = 0,
                                   !.current_file_index =
                                       IF file_index - 1 >= 0
                                       THEN file_index - 1
                                       ELSE Len(s.hold_files) - 1]
                      IN  [t EXCEPT !.current_file =
                               PyIndex(t.hold_files, t.current_file_index)]

\* bytes_offset rounded down to an even number: divmod(bytes_offset, 2)[0]*2
EvenFloor(bytes_offset) == (bytes_offset \div 2) * 2

seek(s0, bytes_offset, file_index) ==
    LET s == Begin(s0)
        files == ActiveFiles(s)
    IN  IF file_index >= Len(files)
        THEN Report(s, "file index unnexistent")
        ELSE LET t == [s EXCEPT !.current_file_index = file_index]
             IN  IF ~InRange(files, file_index)
                 THEN Raise(t, "IndexError")
                 ELSE [t EXCEPT !.current_file = PyIndex(files, file_index),
                                !.current_bytes_offset = EvenFloor(bytes_offset),
                                !.force_seek = TRUE]

\* seek(bytes_offset) with file_index left to its default, None:
\* None >= len(files) raises TypeError.
seek_default(s0, bytes_offset) ==
    Raise(Begin(s0), "TypeError")

__del__(s0) ==
    LET s == Begin(s0)
    IN  [unset_output_file(clear_hold_queue(clear_play_queue(s)))
            EXCEPT !.destroyed = TRUE]

(***************************************************************************)
(* The calls, as actions.  A handle is given to the call at most once.     *)
(***************************************************************************)
Fresh(h) == h \notin accepted

\* Lists of at most MaxQueue distinct handles, the readable ones fresh.
HoldLists ==
    LET Candidates == {x \in Handles : x \in Files => Fresh(x)}
    IN  {q \in UNION {[1..n -> Candidates] : n \in 0..MaxQueue} :
            \A i, j \in DOMAIN q : i # j => q[i] # q[j]}

Play ==
    /\ ~destroyed
    /\ \E f \in Handles :
          /\ f \in Files => Fresh(f) /\ Len(input_files) < MaxQueue
          /\ Does(play(Self, f))

PlayOnHold ==
    /\ ~destroyed
    /\ \/ \E files \in HoldLists : Does(play_on_hold(Self, TRUE, files))
       \/ \E f \in Files : Does(play_on_hold(Self, FALSE, <<f>>))

SetOutputFile ==
    /\ ~destroyed
    /\ \E f \in Handles :
          /\ f \in Sinks => Fresh(f)
          /\ Does(set_output_file(Self, f))

ClearPlayQueue ==
    /\ ~destroyed
    /\ Does(clear_play_queue(Begin(Self)))

ClearHoldQueue ==
    /\ ~destroyed
    /\ Does(clear_hold_queue(Begin(Self)))

UnsetOutputFile ==
    /\ ~destroyed
    /\ Does(unset_output_file(Begin(Self)))

ReadFrame ==
    /\ ~destroyed
    /\ \E length \in Lengths : Does(_read_frame(Self, length))

WriteFrame ==
    /\ ~destroyed
    /\ Does(_write_frame(Self))

PreviousFile ==
    /\ ~destroyed
    /\ Does(previous_file(Self))

Seek ==
    /\ ~destroyed
    /\ \E b \in SeekOffsets, i \in SeekIndices : Does(seek(Self, b, i))

SeekDefault ==
    /\ ~destroyed
    /\ \E b \in SeekOffsets : Does(seek_default(Self, b))

Del ==
    /\ ~destroyed
    /\ Does(__del__(Self))

\* No call in flight.
IdleReader ==
    [pc |-> "idle", length |-> 0, file_index |-> 0, files |-> "",
     file |-> None, frame |-> NoFrame]
IdleSeeker ==
    [pc |-> "idle", bytes_offset |-> 0, file_index |-> 0, files |-> ""]

\* __init__
InitObject ==
    /\ input_files = <<>>
    /\ hold_files = <<>>
    /\ current_file_index = 0
    /\ last_file_name = None
    /\ current_file = None
    /\ current_bytes_offset = 0
    /\ force_seek = FALSE
    /\ output_file = None
    /\ last_progress_percentage = 0
    /\ pos = [h \in Handles |-> 0]
    /\ closes = [h \in Handles |-> 0]
    /\ writes = [h \in Handles |-> 0]
    /\ accepted = {}
    /\ destroyed = FALSE
    /\ ret = NoFrame
    /\ fault = NoError
    /\ diag = NoError
    /\ evts = <<>>
    /\ log = <<>>
    /\ reader = IdleReader
    /\ seeker = IdleSeeker
    /\ sought = <<>>

Init ==
    /\ InitObject
    /\ disk = DiskOf(MainSizes)

\* The calls on the queues and the cursor: a call that sets no output file.
QueueCall ==
    \/ Play
    \/ PlayOnHold
    \/ ClearPlayQueue
    \/ ClearHoldQueue
    \/ ReadFrame
    \/ PreviousFile
    \/ Seek
    \/ SeekDefault
    \/ Del

Next == QueueCall

vars == <<objvars, log, reader, seeker, sought>>

Spec == Init /\ [][Next]_vars

\* The calls on the output file, with the playback queue beside it.
SinkCall ==
    \/ SetOutputFile
    \/ UnsetOutputFile
    \/ WriteFrame
    \/ Play
    \/ ReadFrame
    \/ Del

NextSink == SinkCall

SpecSink == Init /\ [][NextSink]_vars

(***************************************************************************)
(* The traced specification: the first MaxLog calls of an object, each     *)
(* recorded with its outcome.  It plays and reads files of the sizes the   *)
(* end-to-end scenarios name.                                              *)
(***************************************************************************)
Entry(name, args, s) ==
    [name |-> name, args |-> args, ret |-> s.ret, fault |-> s.fault,
     diag |-> s.diag, evts |-> s.evts]

TracedUpTo(cap, name, args, s) ==
    /\ Len(log) < cap
    /\ Becomes(s)
    /\ log' = Append(log, Entry(name, args, s))
    /\ UNCHANGED threads

Traced(name, args, s) == TracedUpTo(MaxLog, name, args, s)

TracedPlay ==
    \E f \in Files :
        /\ Fresh(f)
        /\ Traced("play", <<f>>, play(Self, f))

TracedPlayOnHold ==
    \E files \in {q \in HoldLists : \A i \in DOMAIN q : q[i] \in Files} :
        /\ ~destroyed
        /\ Traced("play_on_hold", files, play_on_hold(Self, TRUE, files))

TracedReadFrame ==
    \E length \in ScenarioLengths :
        /\ ~destroyed
        /\ Traced("_read_frame", <<length>>, _read_frame(Self, length))

InitE2E ==
    /\ InitObject
    /\ disk \in {DiskOf(ScenarioSizes), DiskOf(UnitSizes)}

NextE2E ==
    \/ TracedPlay
    \/ TracedPlayOnHold
    \/ TracedReadFrame

SpecE2E == InitE2E /\ [][NextE2E]_vars

(***************************************************************************)
(* The progress specification: a call that plays files of ProgressSize     *)
(* bytes in frames so short that reads share a rounded percentage.         *)
(***************************************************************************)
ProgressPlay ==
    \E f \in Files :
        /\ Fresh(f) /\ Len(input_files) < MaxQueue
        /\ TracedUpTo(MaxProgressLog, "play", <<f>>, play(Self, f))

ProgressReadFrame ==
    \E length \in ProgressLengths :
        /\ ~destroyed
        /\ TracedUpTo(MaxProgressLog, "_read_frame", <<length>>,
                      _read_frame(Self, length))

InitProgress ==
    /\ InitObject
    /\ disk = [f \in Files |-> ProgressSize]

NextProgress ==
    \/ ProgressPlay
    \/ ProgressReadFrame

SpecProgress == InitProgress /\ [][NextProgress]_vars

(***************************************************************************)
(* The drain specification: one-byte files are played and read to their    *)
(* end, with no hold queue and no seek.                                    *)
(***************************************************************************)
DrainLengths == {1, 2}

DrainPlay ==
    \E f \in Files :
        /\ Fresh(f)
        /\ TracedUpTo(MaxDrainLog, "play", <<f>>, play(Self, f))

DrainReadFrame ==
    \E length \in DrainLengths :
        /\ ~destroyed
        /\ TracedUpTo(MaxDrainLog, "_read_frame", <<length>>,
                      _read_frame(Self, length))

InitDrain ==
    /\ InitObject
    /\ disk = [f \in Files |-> 1]

NextDrain ==
    \/ DrainPlay
    \/ DrainReadFrame

SpecDrain == InitDrain /\ [][NextDrain]_vars

(***************************************************************************)
(* The threaded specification: _read_frame runs on the engine's thread,    *)
(* seek on the user's, and their statements interleave.  A step is one     *)
(* statement, or the statements up to the next access to an attribute the  *)
(* other call writes.  The locals of a call are in reader and seeker; the  *)
(* local 'files' names the deque it refers to.                             *)
(***************************************************************************)
ActiveName(s) == IF Len(s.hold_files) > 0 THEN "hold_files" ELSE "input_files"
Deque(s, name) == IF name = "hold_files" THEN s.hold_files ELSE s.input_files

\* A call starts: the threaded specification runs MaxCalls calls and
\* records them.
Started(name, args) ==
    /\ Len(log) < MaxCalls
    /\ log' = Append(log, Entry(name, args, Begin(Self)))

\* The reader takes a step to state s with locals r.
ReaderStep(s, r) ==
    /\ Becomes(s)
    /\ reader' = r
    /\ UNCHANGED seeker
\* The call ends.
ReaderEnds(s) == ReaderStep(s, IdleReader)

\* lines 103-104
R_start ==
    /\ reader.pc = "idle"
    /\ \E length \in Lengths :
          /\ ReaderStep(Begin(Self),
                        [IdleReader EXCEPT !.pc = "105", !.length = length,
                                           !.file_index = current_file_index])
          /\ Started("_read_frame", <<length>>)
    /\ sought' = <<>>

\* line 105
R_105 ==
    /\ reader.pc = "105"
    /\ ReaderStep(Self, [reader EXCEPT !.pc = "107",
                                       !.files = ActiveName(Self)])
    /\ UNCHANGED <<sought, log>>

\* lines 107-109
R_107 ==
    /\ reader.pc = "107"
    /\ IF reader.file_index >= Len(Deque(Self, reader.files))
       THEN ReaderEnds(Report(Self, "file index unnexistent"))
       ELSE ReaderStep(Self, [reader EXCEPT !.pc = "110"])
    /\ UNCHANGED <<sought, log>>

\* line 110
R_110 ==
    /\ reader.pc = "110"
    /\ LET files == Deque(Self, reader.files)
       IN  IF ~InRange(files, reader.file_index)
           THEN ReaderEnds(Raise(Self, "IndexError"))
           ELSE ReaderStep(
                    [Self EXCEPT !.current_file =
                         PyIndex(files, reader.file_index)],
                    [reader EXCEPT !.pc = "111",
                                   !.file = PyIndex(files, reader.file_index)])
    /\ UNCHANGED <<sought, log>>

\* line 111
R_111 ==
    /\ reader.pc = "111"
    /\ ReaderStep(Self, [reader EXCEPT
                            !.pc = IF force_seek THEN "112" ELSE "114"])
    /\ UNCHANGED <<sought, log>>

\* line 112
R_112 ==
    /\ reader.pc = "112"
    /\ IF IsClosed(Self, reader.file)
       THEN ReaderEnds(Raise(Self, "ValueError"))
       ELSE ReaderStep(FileSeek(Self, reader.file, current_bytes_offset),
                       [reader EXCEPT !.pc = "113"])
    /\ UNCHANGED <<sought, log>>

\* line 113
R_113 ==
    /\ reader.pc = "113"
    /\ ReaderStep([Self EXCEPT !.force_seek = FALSE],
                  [reader EXCEPT !.pc = "114"])
    /\ UNCHANGED <<sought, log>>

\* line 114
R_114 ==
    /\ reader.pc = "114"
    /\ IF IsClosed(Self, reader.file)
       THEN ReaderEnds(Raise(Self, "ValueError"))
       ELSE ReaderStep(FileRead(Self, reader.file, reader.length),
                       [reader EXCEPT
                           !.pc = "115",
                           !.frame = Frame(Self, reader.file, reader.length)])
    /\ UNCHANGED <<sought, log>>

\* line 115
R_115 ==
    /\ reader.pc = "115"
    /\ ReaderStep([Self EXCEPT !.current_bytes_offset = pos[reader.file]],
                  [reader EXCEPT !.pc = "117"])
    /\ UNCHANGED <<sought, log>>

\* lines 117-123
R_117 ==
    /\ reader.pc = "117"
    /\ LET file == reader.file
           s6 == IF last_file_name # FileName(file)
                 THEN [file_changed(Self) EXCEPT
                          !.last_file_name = FileName(file)]
                 ELSE Self
       IN  IF FileSize(s6, file) = 0
           THEN ReaderEnds(Raise(s6, "ZeroDivisionError"))
           ELSE ReaderStep(
                    file_progress(s6, s6.current_bytes_offset,
                                  FileSize(s6, file),
                                  Percentage(s6.current_bytes_offset,
                                             FileSize(s6, file))),
                    [reader EXCEPT !.pc = "125"])
    /\ UNCHANGED <<sought, log>>

\* lines 125-127
R_125 ==
    /\ reader.pc = "125"
    /\ LET s8 == IF FrameLen(reader.frame) # reader.length
                 THEN next_file(Self) ELSE Self
       IN  ReaderEnds(IF s8.fault # NoError THEN s8
                      ELSE [s8 EXCEPT !.ret = reader.frame])
    /\ UNCHANGED <<sought, log>>

\* The seeker takes a step to state s with locals k.
SeekerStep(s, k) ==
    /\ Becomes(s)
    /\ seeker' = k
    /\ UNCHANGED reader

\* lines 183-184
S_start ==
    /\ seeker.pc = "idle"
    /\ \E b \in SeekOffsets, i \in 0..MaxIndex :
          /\ SeekerStep(Self, [IdleSeeker EXCEPT !.pc = "186",
                                                !.bytes_offset = EvenFloor(b),
                                                !.file_index = i])
          /\ Started("seek", <<b, i>>)
    /\ sought' = <<>>

\* lines 186-189
S_186 ==
    /\ seeker.pc = "186"
    /\ IF seeker.file_index >= Len(ActiveFiles(Self))
       THEN SeekerStep(Report(Self, "file index unnexistent"), IdleSeeker)
       ELSE SeekerStep(Self, [seeker EXCEPT !.pc = "191",
                                            !.files = ActiveName(Self)])
    /\ UNCHANGED <<sought, log>>

\* lines 190-191
S_191 ==
    /\ seeker.pc = "191"
    /\ SeekerStep([Self EXCEPT !.current_file_index = seeker.file_index],
                  [seeker EXCEPT !.pc = "192"])
    /\ UNCHANGED <<sought, log>>

\* line 192
S_192 ==
    /\ seeker.pc = "192"
    /\ LET files == Deque(Self, seeker.files)
       IN  IF ~InRange(files, seeker.file_index)
           THEN SeekerStep(Raise(Self, "IndexError"), IdleSeeker)
           ELSE SeekerStep([Self EXCEPT !.current_file =
                                PyIndex(files, seeker.file_index)],
                           [seeker EXCEPT !.pc = "193"])
    /\ UNCHANGED <<sought, log>>

\* line 193
S_193 ==
    /\ seeker.pc = "193"
    /\ SeekerStep([Self EXCEPT !.current_bytes_offset = seeker.bytes_offset],
                  [seeker EXCEPT !.pc = "194"])
    /\ UNCHANGED <<sought, log>>

\* line 194, and the return
S_194 ==
    /\ seeker.pc = "194"
    /\ SeekerStep([Self EXCEPT !.force_seek = TRUE], IdleSeeker)
    /\ sought' = <<seeker.bytes_offset, seeker.file_index>>
    /\ log' = log

\* The queues are filled while no call is in flight.
RacePlay ==
    /\ reader.pc = "idle" /\ seeker.pc = "idle"
    /\ \E f \in Files :
          /\ Fresh(f) /\ Len(input_files) < MaxQueue
          /\ Becomes(play(Self, f))
          /\ Started("play", <<f>>)
    /\ UNCHANGED threads

RacePlayOnHold ==
    /\ reader.pc = "idle" /\ seeker.pc = "idle"
    /\ \E files \in {q \in HoldLists : \A i \in DOMAIN q : q[i] \in Files} :
          /\ Becomes(play_on_hold(Self, TRUE, files))
          /\ Started("play_on_hold", files)
    /\ sought' = <<>>
    /\ UNCHANGED <<reader, seeker>>

NextRace ==
    \/ RacePlay
    \/ RacePlayOnHold
    \/ R_start
    \/ R_105
    \/ R_107
    \/ R_110
    \/ R_111
    \/ R_112
    \/ R_113
    \/ R_114
    \/ R_115
    \/ R_117
    \/ R_125
    \/ S_start
    \/ S_186
    \/ S_191
    \/ S_192
    \/ S_193
    \/ S_194

SpecRace == Init /\ [][NextRace]_vars

(***************************************************************************)
(* Properties.                                                             *)
(***************************************************************************)
Range(q) == {q[i] : i \in DOMAIN q}
\* The length of the frame a recorded call returned, -1 when it returned none.
RetLen(e) == IF e.ret = NoFrame THEN 0 - 1 ELSE FrameLen(e.ret)
\* The file-changed events a recorded call emitted.
Changed(e) == {i \in DOMAIN e.evts : e.evts[i].kind = "file_changed"}
IsCall(e, name, args) == e.name = name /\ e.args = args

\* C1: while the hold queue is non-empty, a _read_frame call leaves the
\* playback queue alone: the same handles in the same order, none of them
\* closed by the call.
C1_HoldPriority ==
    [][(ReadFrame /\ Len(hold_files) > 0)
          => /\ input_files' = input_files
             /\ \A f \in Range(input_files) : closes'[f] = closes[f]]_vars

\* C2: play of one 10-byte file, then three _read_frame(4) calls: each
\* returns normally, with 4, 4 and 2 bytes; the playback queue is then empty
\* and the only file-changed event is one emitted by the first read.
C2_TenByteFile ==
    \A f \in Files :
        (/\ disk[f] = 10
         /\ Len(log) = 4
         /\ IsCall(log[1], "play", <<f>>)
         /\ \A i \in 2..4 : IsCall(log[i], "_read_frame", <<4>>))
        => /\ \A i \in 2..4 : log[i].fault = NoError
           /\ <<RetLen(log[2]), RetLen(log[3]), RetLen(log[4])>> = <<4, 4, 2>>
           /\ input_files = <<>>
           /\ Cardinality(Changed(log[2])) = 1
           /\ Changed(log[3]) = {} /\ Changed(log[4]) = {}

\* The calls of the second end-to-end scenario: play_on_hold of a 5-byte and
\* a 3-byte file, then _read_frame(5), _read_frame(3), _read_frame(1).
HoldScenario(f, g) ==
    /\ disk[f] = 5 /\ disk[g] = 3
    /\ Len(log) = 4
    /\ IsCall(log[1], "play_on_hold", <<f, g>>)
    /\ IsCall(log[2], "_read_frame", <<5>>)
    /\ IsCall(log[3], "_read_frame", <<3>>)
    /\ IsCall(log[4], "_read_frame", <<1>>)

\* C3 as stated: the frames have 5, 3 and 1 bytes, the third is the first
\* byte of the 5-byte file, read after the wrap, and the read that wraps emits
\* the second file-changed event.
C3_AsStated ==
    \A f, g \in Files :
        HoldScenario(f, g)
        => /\ <<RetLen(log[2]), RetLen(log[3]), RetLen(log[4])>> = <<5, 3, 1>>
           /\ log[4].ret = <<f, 0, 1>>
           /\ Changed(log[2]) # {} /\ Changed(log[4]) # {}

\* C3, amended: the frames have 5, 0 and 1 bytes.  The second read finds the
\* 5-byte file at its end, returns an empty frame, rewinds the file and moves
\* the cursor to the 3-byte file; the third frame is the first byte of the
\* 3-byte file.  The first and the third read emit a file-changed event, for
\* the 5-byte and the 3-byte file, and the second read emits none.
C3_HoldScenario ==
    \A f, g \in Files :
        HoldScenario(f, g)
        => /\ \A i \in 2..4 : log[i].fault = NoError
           /\ log[2].ret = <<f, 0, 5>>
           /\ log[3].ret = <<f, 5, 0>>
           /\ log[4].ret = <<g, 0, 1>>
           /\ pos[f] = 0 /\ pos[g] = 1
           /\ current_file_index = 1
           /\ hold_files = <<f, g>>
           /\ closes[f] = 0 /\ closes[g] = 0
           /\ {log[2].evts[i].file : i \in Changed(log[2])} = {f}
           /\ Changed(log[3]) = {}
           /\ {log[4].evts[i].file : i \in Changed(log[4])} = {g}

C3_Witness ==
    \E f, g \in Files : HoldScenario(f, g) /\ RetLen(log[4]) = 1

\* C4 (the part a finite run decides): with no hold queue set, and no seek
\* and no clear call, no _read_frame call of length >= 1 ends in an
\* exception, whatever the sizes of the files played.
C4_NoFault ==
    (\A i \in DOMAIN log : log[i].name # "play_on_hold")
    => \A i \in DOMAIN log : log[i].fault = NoError

\* The cursor fields seek writes.
cursor == <<current_file_index, current_bytes_offset, current_file, force_seek>>
\* file_index is an index of the queue seek and _read_frame work on.
ValidIndex(i) == 0 <= i /\ i < Len(ActiveFiles(Self))

\* C5: a frame _read_frame(length) returns has at most length bytes; it has
\* fewer only when the read left the file at its end (offset = size), and
\* then the call has advanced the queue it read from: the hold cursor has
\* moved on and the file is rewound, or the file has left the playback queue.
C5_ShortOnlyAtEnd ==
    [][\A length \in Lengths :
          (~destroyed /\ Does(_read_frame(Self, length)) /\ ret' # NoFrame)
          => /\ FrameLen(ret') <= length
             /\ FrameLen(ret') < length
                => /\ ret'[2] + ret'[3] = disk[ret'[1]]
                   /\ IF Len(hold_files) > 0
                      THEN /\ pos'[ret'[1]] = 0
                           /\ current_file_index' =
                                 IF current_file_index + 1 < Len(hold_files)
                                 THEN current_file_index + 1 ELSE 0
                      ELSE ret'[1] \notin Range(input_files')]_vars

\* C6: once __del__ has run, every handle that was taken into a queue or as
\* output file has been closed exactly once.
C6_ClosedOnce ==
    destroyed => \A h \in accepted : closes[h] = 1

\* C7: seek(b, i) with a valid i moves no file and sets the cursor to i,
\* the offset to b rounded down to even and force_seek; a _read_frame that
\* finds force_seek set on a valid cursor clears it and reads from
\* current_bytes_offset; a _read_frame that finds it clear reads from where
\* the file stands.
C7_LazySeek ==
    [][/\ \A b \in SeekOffsets, i \in SeekIndices :
             (~destroyed /\ Does(seek(Self, b, i)) /\ ValidIndex(i))
             => /\ pos' = pos
                /\ current_file_index' = i
                /\ current_bytes_offset' = EvenFloor(b)
                /\ force_seek'
       /\ \A length \in Lengths :
             (~destroyed /\ Does(_read_frame(Self, length))
                /\ ValidIndex(current_file_index))
             => /\ ~force_seek'
                /\ ret' # NoFrame
                   => /\ ret'[1] = PyIndex(ActiveFiles(Self),
                                           current_file_index)
                      /\ ret'[2] = IF force_seek THEN current_bytes_offset
                                   ELSE pos[ret'[1]]]_vars

\* C8: once a seek(b, i) has returned, and until the next _read_frame
\* starts, whenever no call is in flight the cursor is the one the seek
\* asked for: force_seek set, offset b rounded down to even, index i.  A
\* read in flight while the seek ran does not overwrite it.
C8_SeekSurvivesRead ==
    (sought # <<>> /\ reader.pc = "idle" /\ seeker.pc = "idle")
    => /\ force_seek
       /\ current_bytes_offset = sought[1]
       /\ current_file_index = sought[2]

\* C9: seek(b, i) with i outside 0 .. len(active queue) - 1, negative i
\* included, prints the diagnostic and leaves the cursor as it was; the
\* cursor index is never negative.
C9_SeekIndexChecked ==
    [][/\ \A b \in SeekOffsets, i \in SeekIndices :
             (~destroyed /\ Does(seek(Self, b, i)) /\ ~ValidIndex(i))
             => /\ diag' = "file index unnexistent"
                /\ fault' = NoError
                /\ UNCHANGED cursor
       /\ current_file_index' >= 0]_vars

\* The recorded reads that returned a frame, the percentage of each, and
\* the progress events.
Reads == {i \in DOMAIN log : log[i].name = "_read_frame" /\ log[i].ret # NoFrame}
ReadPercentage(i) ==
    Percentage(log[i].ret[2] + log[i].ret[3], disk[log[i].ret[1]])
EmitsProgress(i) ==
    \E k \in DOMAIN log[i].evts : log[i].evts[k].kind = "file_progress"
\* The reads before read i that emitted a progress event.
EmittedBefore(i) == {j \in Reads : j < i /\ EmitsProgress(j)}
LastEmitted(i) == CHOOSE j \in EmittedBefore(i) : \A k \in EmittedBefore(i) : k <= j
\* The rounded percentages of the progress events emitted so far, in order.
RECURSIVE EmittedUpTo(_)
EmittedUpTo(n) ==
    IF n = 0 THEN <<>>
    ELSE IF n \in Reads /\ EmitsProgress(n)
    THEN Append(EmittedUpTo(n - 1), Round1(ReadPercentage(n)))
    ELSE EmittedUpTo(n - 1)

\* C10: a read emits a progress event exactly when its rounded percentage
\* differs from that of the last progress event emitted, and always when
\* none was emitted before; reads with the rounded percentages 0.0, 0.0,
\* 1.0, 1.0, 2.0 on a fresh call emit three events: 0.0, 1.0, 2.0.
C10_ProgressDedup ==
    /\ \A i \in Reads :
          EmitsProgress(i)
          <=> \/ EmittedBefore(i) = {}
              \/ Round1(ReadPercentage(i))
                    # Round1(ReadPercentage(LastEmitted(i)))
    /\ (/\ Len(log) = 6
        /\ Reads = 2..6
        /\ [i \in 1..5 |-> Round1(ReadPercentage(i + 1))] = <<0, 0, 10, 10, 20>>)
       => EmittedUpTo(6) = <<0, 10, 20>>

\* The progress events a recorded call emitted.
Progressed(e) == {i \in DOMAIN e.evts : e.evts[i].kind = "file_progress"}
\* p <= q, for percentages as quotients.
Leq(p, q) == p[1] * q[2] <= q[1] * p[2]
\* Recorded call k is a read that reached the end of its source, or that
\* ended in an exception: the queue may have advanced or rewound.
AtEnd(k) ==
    /\ log[k].name = "_read_frame"
    /\ \/ log[k].ret = NoFrame
       \/ FrameLen(log[k].ret) < log[k].args[1]
\* No call from i + 1 to j emitted a file-changed event.
SameStretch(i, j) == \A k \in (i + 1)..j : Changed(log[k]) = {}
\* In every recorded call the file-changed event precedes the progress event.
ChangedFirst ==
    \A i \in DOMAIN log :
        \A c \in Changed(log[i]), p \in Progressed(log[i]) : c < p

\* C11 as stated: events are in the order of the reads, file-changed before
\* progress within a read, and between two consecutive file-changed events
\* the percentages of the progress events do not decrease.
C11_AsStated ==
    /\ ChangedFirst
    /\ \A i, j \in DOMAIN log :
          \A p \in Progressed(log[i]), q \in Progressed(log[j]) :
              (i < j /\ SameStretch(i, j))
              => Leq(log[i].evts[p].pct, log[j].evts[q].pct)

\* C11, amended: file-changed precedes progress within a read, and between
\* two progress events with no file-changed event and no read that reached
\* end-of-source in between (one traversal of a source), the percentages do
\* not decrease.
C11_EventOrder ==
    /\ ChangedFirst
    /\ \A i, j \in DOMAIN log :
          \A p \in Progressed(log[i]), q \in Progressed(log[j]) :
              (i < j /\ SameStretch(i, j) /\ \A k \in i..(j - 1) : ~AtEnd(k))
              => Leq(log[i].evts[p].pct, log[j].evts[q].pct)

\* Two reads of one traversal emitted progress events, the second a larger
\* percentage; the first also emitted the file-changed event.
C11_Witness ==
    \E i, j \in DOMAIN log :
        \E p \in Progressed(log[i]), q \in Progressed(log[j]) :
            /\ i < j /\ SameStretch(i, j) /\ \A k \in i..(j - 1) : ~AtEnd(k)
            /\ Changed(log[i]) # {}
            /\ ~Leq(log[j].evts[q].pct, log[i].evts[p].pct)

\* The playback queue a FIFO of one-byte sources has after the first n
\* recorded calls: play(f) enqueues f; a read that asks for more bytes than
\* the head has left exhausts and removes it.
RECURSIVE Fifo(_)
Fifo(n) ==
    IF n = 0 THEN [queue |-> <<>>, left |-> 1, removed |-> {}]
    ELSE LET q == Fifo(n - 1)
             e == log[n]
         IN  IF e.name = "play"
             THEN [q EXCEPT !.queue = Append(@, e.args[1])]
             ELSE IF e.name # "_read_frame" \/ q.queue = <<>> THEN q
             ELSE IF e.args[1] > q.left
             THEN [queue |-> Tail(q.queue), left |-> 1,
                   removed |-> q.removed \cup {Head(q.queue)}]
             ELSE [q EXCEPT !.left = @ - e.args[1]]
Plays == {i \in DOMAIN log : log[i].name = "play"}

\* C12: after N plays of distinct one-byte sources and M of them read to
\* exhaustion, the playback queue holds the last N - M played, in order;
\* each removed source is closed exactly once and no queued source is closed.
C12_QueueAccounting ==
    LET q == Fifo(Len(log))
    IN  /\ input_files = q.queue
        /\ Len(input_files) = Cardinality(Plays) - Cardinality(q.removed)
        /\ \A f \in q.removed : closes[f] = 1
        /\ \A f \in Range(input_files) : closes[f] = 0

\* Three sources were played and two of them read to exhaustion.
C12_Witness ==
    /\ Cardinality(Plays) = 3
    /\ Cardinality(Fifo(Len(log)).removed) = 2
    /\ Len(input_files) = 1

\* A frame length no file of the model has: a read of PastEnd bytes comes
\* back short.
PastEnd == MaxLen + 1
\* The object after n reads past end-of-source.
RECURSIVE ReadsPastEnd(_, _)
ReadsPastEnd(s, n) ==
    IF n = 0 THEN s ELSE ReadsPastEnd(_read_frame(s, PastEnd), n - 1)

\* C13: from every reachable state with a hold queue of K >= 1 sources
\* (none of them empty), K reads past end-of-source bring the cursor index
\* back to its starting value, leave the hold queue as it was and close no
\* hold source.
C13_HoldCycle ==
    (/\ ~destroyed
     /\ Len(hold_files) >= 1
     /\ \A f \in Range(hold_files) : disk[f] > 0)
    => LET s == ReadsPastEnd(Self, Len(hold_files))
       IN  /\ s.current_file_index = current_file_index
           /\ s.hold_files = hold_files
           /\ \A f \in Range(hold_files) : s.closes[f] = 0

\* C14: a play, play_on_hold or set_output_file call that reports a failed
\* validation leaves the playback queue, the hold queue, the output file
\* and the cursor fields as they were, and closes nothing.
C14_RejectNoOp ==
    [][((Play \/ PlayOnHold \/ SetOutputFile) /\ diag' # NoError)
          => /\ UNCHANGED <<input_files, hold_files, output_file, cursor,
                            last_file_name>>
             /\ closes' = closes]_vars

\* C15: in every reachable state with a non-empty playback queue and an
\* empty hold queue, previous_file prints its diagnostic, raises nothing and
\* leaves the cursor fields, last_file_name, the queues and every handle
\* (position, open or closed) as they were.
C15_PreviousRejected ==
    (~destroyed /\ Len(input_files) > 0 /\ hold_files = <<>>)
    => LET s == previous_file(Self)
       IN  /\ s.diag = "previous_file can only be used with play_on_hold"
           /\ s.fault = NoError
           /\ s.current_file_index = current_file_index
           /\ s.current_bytes_offset = current_bytes_offset
           /\ s.current_file = current_file
           /\ s.force_seek = force_seek
           /\ s.last_file_name = last_file_name
           /\ s.pos = pos /\ s.closes = closes
           /\ s.input_files = input_files /\ s.hold_files = hold_files

\* previous_file was rejected on a playback queue with a seek pending and
\* the cursor away from 0.
C15_Witness ==
    /\ diag = "previous_file can only be used with play_on_hold"
    /\ Len(input_files) > 0 /\ hold_files = <<>>
    /\ force_seek /\ current_file_index = 1

\* C16: in every reachable state with an empty hold queue and the cursor on
\* a non-empty source of the playback queue, a read past end-of-source closes
\* that source and removes it from the queue, closes and removes no other,
\* and leaves the cursor index 0, on the new head if there is one.
C16_RemovesPlayed ==
    (/\ ~destroyed /\ hold_files = <<>> /\ ValidIndex(current_file_index)
     /\ disk[PyIndex(input_files, current_file_index)] > 0)
    => LET file == PyIndex(input_files, current_file_index)
           s == _read_frame(Self, PastEnd)
       IN  /\ s.input_files = SelectSeq(input_files, LAMBDA f : f # file)
           /\ s.closes[file] = closes[file] + 1
           /\ \A f \in Handles \ {file} : s.closes[f] = closes[f]
           /\ s.current_file_index = 0
           /\ s.input_files # <<>> => s.current_file = Head(s.input_files)

\* C17: in every reachable state with a non-empty hold queue and the cursor
\* on one of its sources, whatever the playback queue holds, previous_file
\* is not rejected: it rewinds the current hold source, sets the offset to
\* 0 and the cursor index to (index - 1) mod K, and closes nothing; after a
\* read past end-of-source (a next-source advance) it brings the cursor
\* index back.
C17_PreviousInHold ==
    (~destroyed /\ Len(hold_files) >= 1 /\ ValidIndex(current_file_index))
    => LET K == Len(hold_files)
           file == PyIndex(hold_files, current_file_index)
           s == previous_file(Self)
           back == previous_file(_read_frame(Self, PastEnd))
       IN  /\ s.diag = NoError /\ s.fault = NoError
           /\ s.pos[file] = 0
           /\ s.current_bytes_offset = 0
           /\ s.current_file_index = (current_file_index - 1) % K
           /\ s.closes = closes
           /\ disk[file] > 0 => back.current_file_index = current_file_index

\* C18: in every reachable state the position of every source and the
\* recorded offset of the current source are at most the size of the
\* source, and every percentage passed to a progress event is at most 100.
C18_OffsetBound ==
    /\ \A f \in Files : 0 <= pos[f] /\ pos[f] <= disk[f]
    /\ current_file # None
       => 0 <= current_bytes_offset /\ current_bytes_offset <= disk[current_file]
    /\ \A i \in DOMAIN evts :
          evts[i].kind = "file_progress" => Leq(evts[i].pct, <<100, 1>>)

\* C19: in every reachable state with a non-empty hold queue and the cursor
\* on one of its sources, after a _read_frame call the recorded offset is
\* the real position of the source the cursor is then on: a source the call
\* has advanced to stands at offset 0, and is read from there.
C19_HoldRestart ==
    (~destroyed /\ Len(hold_files) >= 1 /\ ValidIndex(current_file_index))
    => \A length \in Lengths \cup {PastEnd} :
          LET s == _read_frame(Self, length)
              file == PyIndex(s.hold_files, s.current_file_index)
          IN  s.pos[file] = s.current_bytes_offset

\* C20: in every reachable state the only output file that was accepted
\* and is still open is the current one; once __del__ has run none is open.
C20_SingleSink ==
    \A h \in accepted \cap Sinks :
        closes[h] = 0 => (~destroyed /\ output_file = h)

=============================================================================
